---- MODULE Spec2Model ----
(***************************************************************************)
(* A model of generate_blogs.py: slugify, compile_markdown, extract_title  *)
(* and main (post collection, template merge, write of blogs.html).        *)
(*                                                                         *)
(* Text is a sequence of tokens.  A token is one character ("#", "\n",     *)
(* " ", "<", ...) or an atomic piece of text that no pattern of the        *)
(* program can split: a word of letters ("Hello", "BLOGS"), or a whole     *)
(* piece of markup ("</main>", "<h2>").  The literal markers of the        *)
(* program are token sequences, so that "###BLOGS###" still begins with    *)
(* three "#" characters for the heading patterns.                          *)
(***************************************************************************)
EXTENDS Naturals, Sequences, FiniteSets, TLC

VARIABLES
  pc,              \* position of the running function / of main
  name, slug,      \* slugify: argument and result
  md, fallback,    \* compile_markdown / extract_title: arguments
  compiled, title, \* compile_markdown / extract_title: results
  tpl,             \* content of blog_template.html
  posts_block, contents_block, out_html,   \* locals of main (merge)
  dir_exists, tpl_exists,                  \* file system: blogs/, template
  md_files,        \* blogs/*.md, newest first: [stem, raw, readable]
  posts_fragments, contents,               \* locals of main (collection)
  OUT, OUT0,       \* blogs.html [exists, text], now and before the run
  exit_status      \* process exit status "0" or "1" ("running" before)

vars == <<pc, name, slug, md, fallback, compiled, title, tpl, posts_block,
          contents_block, out_html, dir_exists, tpl_exists, md_files,
          posts_fragments, contents, OUT, OUT0, exit_status>>

slugVars  == <<name, slug>>
mdVars    == <<md, fallback, compiled, title>>
mergeVars == <<tpl, posts_block, contents_block, out_html>>
mainVars  == <<dir_exists, tpl_exists, md_files, posts_fragments, contents,
               OUT, OUT0, exit_status>>

(***************************************************************************)
(* Bounds of the model.                                                    *)
(***************************************************************************)
MaxNameLen == 3   \* characters of a name given to slugify
MaxMdLen   == 4   \* tokens of a text given to extract_title
MaxMdSegs  == 3   \* segments of a Markdown text
MaxTplSegs == 3   \* segments of a template
MaxFiles   == 2   \* eligible files in blogs/

(***************************************************************************)
(* Text helpers (Python str methods on token sequences).                   *)
(***************************************************************************)
RECURSIVE Concat(_)
Concat(ss) == IF ss = <<>> THEN <<>> ELSE Head(ss) \o Concat(Tail(ss))

\* s[i..j] (1-based, inclusive; empty when j < i)
Slice(s, i, j) == SubSeq(s, i, j)

\* pat occurs in s at position i
MatchAt(s, pat, i) ==
  /\ i >= 1
  /\ i + Len(pat) - 1 <= Len(s)
  /\ \A k \in 1..Len(pat) : s[i + k - 1] = pat[k]

\* positions where pat occurs in s
Occurrences(s, pat) == {i \in 1..Len(s) : MatchAt(s, pat, i)}

\* Python: pat in s   (pat non-empty)
Contains(s, pat) == Occurrences(s, pat) /= {}

Min(S) == CHOOSE x \in S : \A y \in S : x <= y
Max(S) == CHOOSE x \in S : \A y \in S : x >= y

\* Python: s.find(pat) + 1, 0 when absent; searching from position from
FindFrom(s, pat, from) ==
  LET O == {i \in Occurrences(s, pat) : i >= from}
  IN IF O = {} THEN 0 ELSE Min(O)

\* Python: s.replace(pat, rep): every non-overlapping occurrence, left to right
RECURSIVE Replace(_, _, _)
Replace(s, pat, rep) ==
  LET i == FindFrom(s, pat, 1)
  IN IF i = 0 THEN s
     ELSE Slice(s, 1, i - 1) \o rep
          \o Replace(Slice(s, i + Len(pat), Len(s)), pat, rep)

\* Python: sep.join(parts)
RECURSIVE Join(_, _)
Join(sep, parts) ==
  IF parts = <<>> THEN <<>>
  ELSE IF Len(parts) = 1 THEN parts[1]
  ELSE parts[1] \o sep \o Join(sep, Tail(parts))

\* \s of the re module, among the tokens of the model
IsSpace(c) == c \in {" ", "\n", "\t", "\r"}

\* Python: s.strip()
RECURSIVE LStrip(_)
LStrip(s) == IF s /= <<>> /\ IsSpace(Head(s)) THEN LStrip(Tail(s)) ELSE s
RECURSIVE RStrip(_)
RStrip(s) ==
  IF s /= <<>> /\ IsSpace(s[Len(s)]) THEN RStrip(Slice(s, 1, Len(s) - 1)) ELSE s
Strip(s) == RStrip(LStrip(s))

\* all sequences over S of length at most n
SeqsUpTo(S, n) == UNION {[1..k -> S] : k \in 0..n}

\* all concatenations of at most n segments of Segs
SegTexts(Segs, n) == {Concat(ss) : ss \in SeqsUpTo(Segs, n)}

(***************************************************************************)
(* Values of the variables a specification does not use.                   *)
(***************************************************************************)
SlugIdle  == name = <<>> /\ slug = <<>>
MdIdle    == md = <<>> /\ fallback = <<>> /\ compiled = <<>> /\ title = <<>>
MergeIdle == /\ tpl = <<>> /\ posts_block = <<>>
             /\ contents_block = <<>> /\ out_html = <<>>
MainIdle  == /\ dir_exists = TRUE /\ tpl_exists = TRUE /\ md_files = <<>>
             /\ posts_fragments = <<>> /\ contents = <<>>
             /\ OUT = [exists |-> FALSE, text |-> <<>>] /\ OUT0 = OUT
             /\ exit_status = "running"

(***************************************************************************)
(* slugify (lines 14-16).                                                  *)
(*   s = re.sub(r"[^\w\-]+", "-", name).strip("-").lower()                 *)
(*   return s or "post"                                                    *)
(* The characters of a name: lower-case and upper-case letters, a digit,   *)
(* "_", "-", characters outside \w (" ", "."), and the one upper-case      *)
(* letter of Unicode whose str.lower() is two code points, U+0130 (LATIN   *)
(* CAPITAL LETTER I WITH DOT ABOVE): "i" followed by U+0307 (COMBINING DOT *)
(* ABOVE), which is not in \w.                                             *)
(***************************************************************************)
\* \w of the re module (str patterns: Unicode letters, digits and "_")
\* (single characters, and the atomic words of the model's texts)
IsWordChar(c) ==
  c \in {"a", "b", "i", "p", "o", "s", "t", "A", "1", "_", "U+0130",
         "Hello", "World", "python", "x", "stem", "bar", "Home", "old",
         "BLOGS"}

\* re.sub(r"[^\w\-]+", "-", s): each maximal run of other characters -> "-"
RECURSIVE SubNonWord(_)
SubNonWord(s) ==
  IF s = <<>> THEN <<>>
  ELSE IF IsWordChar(Head(s)) \/ Head(s) = "-"
       THEN <<Head(s)>> \o SubNonWord(Tail(s))
       ELSE LET k == Min({j \in 1..Len(s) + 1 :
                            j = Len(s) + 1 \/ IsWordChar(s[j]) \/ s[j] = "-"})
            IN <<"-">> \o SubNonWord(Slice(s, k, Len(s)))

\* str.strip("-")
RECURSIVE LStripHyphen(_)
LStripHyphen(s) ==
  IF s /= <<>> /\ Head(s) = "-" THEN LStripHyphen(Tail(s)) ELSE s
RECURSIVE RStripHyphen(_)
RStripHyphen(s) ==
  IF s /= <<>> /\ s[Len(s)] = "-"
  THEN RStripHyphen(Slice(s, 1, Len(s) - 1)) ELSE s
StripHyphen(s) == RStripHyphen(LStripHyphen(s))

\* str.lower() of one character: a sequence of characters
LowerChar(c) ==
  CASE c = "A"      -> <<"a">>
    [] c = "U+0130" -> <<"i", "U+0307">>
    [] OTHER        -> <<c>>

\* str.lower()
RECURSIVE Lower(_)
Lower(s) == IF s = <<>> THEN <<>> ELSE LowerChar(Head(s)) \o Lower(Tail(s))

slugify(n) ==
  LET s == Lower(StripHyphen(SubNonWord(n)))
  IN IF s = <<>> THEN <<"p", "o", "s", "t">> ELSE s

NameChars == {"a", "A", "1", "_", "-", " ", ".", "U+0130"}
Names     == SeqsUpTo(NameChars, MaxNameLen)

InitSlug ==
  /\ pc = "call"
  /\ name \in Names
  /\ slug = <<>>
  /\ MdIdle /\ MergeIdle /\ MainIdle

\* one call slugify(name)
Slugify ==
  /\ pc = "call"
  /\ slug' = slugify(name)
  /\ pc' = "done"
  /\ UNCHANGED <<name, mdVars, mergeVars, mainVars>>

NextSlug == Slugify
SpecSlug == InitSlug /\ [][NextSlug]_vars

\* C8: slugify is idempotent, and its result is non-empty, lower-case, made
\* only of word characters and hyphens, with no leading or trailing hyphen
\* ("post" when nothing else remains).
C8_SlugifyIdempotent ==
  pc = "done" =>
    /\ slugify(slug) = slug
    /\ slug /= <<>>
    /\ Lower(slug) = slug
    /\ \A k \in 1..Len(slug) : IsWordChar(slug[k]) \/ slug[k] = "-"
    /\ slug[1] /= "-" /\ slug[Len(slug)] /= "-"

(***************************************************************************)
(* Heading patterns, shared by extract_title (lines 45, 48) and            *)
(* compile_markdown (lines 27-29):  ^#{n}\s+(.+)$  and  ^#{n}\s*(.+)$      *)
(* with re.MULTILINE.  "^" matches at the start of the text and after each *)
(* "\n"; \s matches "\n" too; "." matches anything but "\n"; "$" matches   *)
(* before a "\n" and at the end.  \s is greedy and gives characters back   *)
(* until (.+) finds a character to match.                                  *)
(***************************************************************************)
AtLineStart(s, i) == i = 1 \/ (i > 1 /\ s[i - 1] = "\n")

\* last position of the line that position g is on ("." never matches "\n")
LineEnd(s, g) ==
  Max({e \in g..Len(s) : \A k \in g..e : s[k] /= "\n"})

\* the numbers of characters \s+ (minws = 1) or \s* (minws = 0) may take
\* after the n "#" at position i, so that (.+) has a character to match
WsTakes(s, i, n, minws) ==
  {j \in minws..Len(s) :
     /\ i + n + j <= Len(s)
     /\ \A m \in 1..j : IsSpace(s[i + n - 1 + m])
     /\ s[i + n + j] /= "\n"}

\* the pattern matches at position i
HeadingAt(s, i, n, minws) ==
  /\ AtLineStart(s, i)
  /\ i + n - 1 <= Len(s)
  /\ \A k \in 0..n - 1 : s[i + k] = "#"
  /\ WsTakes(s, i, n, minws) /= {}

\* where group 1 starts for the match at position i
GroupStart(s, i, n, minws) == i + n + Max(WsTakes(s, i, n, minws))

\* m.group(1) of the match at position i
HeadingText(s, i, n, minws) ==
  LET g == GroupStart(s, i, n, minws) IN Slice(s, g, LineEnd(s, g))

(***************************************************************************)
(* extract_title (lines 44-51).                                            *)
(***************************************************************************)
\* re.search(r"^#{n}\s+(.+)$", md, flags=re.MULTILINE): the leftmost match
\* (0 when there is none)
SearchHeading(s, n) ==
  LET M == {i \in 1..Len(s) : HeadingAt(s, i, n, 1)}
  IN IF M = {} THEN 0 ELSE Min(M)

extract_title(s, fb) ==
  LET m1 == SearchHeading(s, 1)
      m2 == SearchHeading(s, 2)
  IN IF m1 /= 0 THEN Strip(HeadingText(s, m1, 1, 1))
     ELSE IF m2 /= 0 THEN Strip(HeadingText(s, m2, 2, 1))
     ELSE fb

TitleChars == {"#", " ", "\n", "Hello", "World"}
TitleTexts == SeqsUpTo(TitleChars, MaxMdLen)

InitTitle ==
  /\ pc = "call"
  /\ md \in TitleTexts
  /\ fallback = <<"stem">>
  /\ compiled = <<>> /\ title = <<>>
  /\ SlugIdle /\ MergeIdle /\ MainIdle

\* one call extract_title(md, fallback)
ExtractTitle ==
  /\ pc = "call"
  /\ title' = extract_title(md, fallback)
  /\ pc' = "done"
  /\ UNCHANGED <<md, fallback, compiled, slugVars, mergeVars, mainVars>>

NextTitle == ExtractTitle
SpecTitle == InitTitle /\ [][NextTitle]_vars

\* The lines of a text (split at "\n").
RECURSIVE LinesOf(_)
LinesOf(s) ==
  LET i == FindFrom(s, <<"\n">>, 1)
  IN IF i = 0 THEN <<s>>
     ELSE <<Slice(s, 1, i - 1)>> \o LinesOf(Slice(s, i + 1, Len(s)))

\* A line that is a heading of level n: n "#", then whitespace, then at
\* least one more character, all on that line.
IsHeadingLine(l, n) ==
  /\ Len(l) >= n + 2
  /\ \A k \in 1..n : l[k] = "#"
  /\ IsSpace(l[n + 1])

\* The title the claim describes: the text of the first level-1 heading
\* line, else of the first level-2 heading line, else the fallback.
TitleByLines(s, fb) ==
  LET L  == LinesOf(s)
      H1 == {k \in 1..Len(L) : IsHeadingLine(L[k], 1)}
      H2 == {k \in 1..Len(L) : IsHeadingLine(L[k], 2)}
  IN IF H1 /= {} THEN Strip(Slice(L[Min(H1)], 2, Len(L[Min(H1)])))
     ELSE IF H2 /= {} THEN Strip(Slice(L[Min(H2)], 3, Len(L[Min(H2)])))
     ELSE fb

\* C7: extract_title returns the trimmed text of the first level-1 heading
\* line ("#", whitespace and text on that same line) when there is one, else
\* that of the first level-2 heading line, else the fallback; the title is
\* always text of one heading line.
C7_TitleIsFirstHeadingLine ==
  pc = "done" => title = TitleByLines(md, fallback)

(***************************************************************************)
(* compile_markdown (lines 18-42).                                         *)
(***************************************************************************)
\* line 19: md.replace("\r\n", "\n").replace("\r", "\n")
NormalizeNewlines(s) == Replace(Replace(s, <<"\r", "\n">>, <<"\n">>), <<"\r">>, <<"\n">>)

\* html.escape of one character (quote=True)
EscapeChar(c) ==
  CASE c = "&"  -> "&amp;"
    [] c = "<"  -> "&lt;"
    [] c = ">"  -> "&gt;"
    [] c = "\"" -> "&quot;"
    [] c = "'"  -> "&#x27;"
    [] OTHER    -> c

\* html.escape
HtmlEscape(s) == [k \in 1..Len(s) |-> EscapeChar(s[k])]

\* lines 20-25
repl_code(lang, code) ==
  IF lang /= <<>>
  THEN <<"<pre><code class='language-">> \o HtmlEscape(lang) \o <<"'>">>
       \o HtmlEscape(code) \o <<"</code></pre>">>
  ELSE <<"<pre><code>">> \o HtmlEscape(code) \o <<"</code></pre>">>

\* three backticks (the backtick character is the token "BACKTICK")
FENCE == <<"BACKTICK", "BACKTICK", "BACKTICK">>

\* the number of characters (\w*) takes after the fence at position i
LangLen(s, i) ==
  Max({k \in 0..Len(s) : \A m \in 1..k : i + 2 + m <= Len(s) /\ IsWordChar(s[i + 2 + m])})

\* the positions of a "\n" that closes the fence opened at i: a "\n" followed
\* by a fence, after the "\n" that ends the opening line
FenceCloses(s, i) ==
  {c \in (i + 4 + LangLen(s, i))..Len(s) : s[c] = "\n" /\ MatchAt(s, FENCE, c + 1)}

\* the pattern of line 26, fence (\w*) \n (.*?) \n fence with re.DOTALL,
\* matches at position i
FenceAt(s, i) ==
  /\ MatchAt(s, FENCE, i)
  /\ i + 3 + LangLen(s, i) <= Len(s)
  /\ s[i + 3 + LangLen(s, i)] = "\n"
  /\ FenceCloses(s, i) /= {}

\* line 26: every match, left to right; (.*?) stops at the first closing
RECURSIVE CodeSub(_)
CodeSub(s) ==
  LET M == {i \in 1..Len(s) : FenceAt(s, i)}
  IN IF M = {} THEN s
     ELSE LET i == Min(M)
              k == LangLen(s, i)
              c == Min(FenceCloses(s, i))
          IN Slice(s, 1, i - 1)
             \o repl_code(Slice(s, i + 3, i + 2 + k), Slice(s, i + 4 + k, c - 1))
             \o CodeSub(Slice(s, c + 4, Len(s)))

\* lines 27-29: re.sub(r"^#{n}\s*(.+)$", open \1 close, s, flags=re.MULTILINE)
RECURSIVE HeadingSub(_, _, _, _)
HeadingSub(s, n, open, close) ==
  LET M == {i \in 1..Len(s) : HeadingAt(s, i, n, 0)}
  IN IF M = {} THEN s
     ELSE LET i == Min(M)
              e == LineEnd(s, GroupStart(s, i, n, 0))
          IN Slice(s, 1, i - 1)
             \o <<open>> \o HeadingText(s, i, n, 0) \o <<close>>
             \o HeadingSub(Slice(s, e + 1, Len(s)), n, open, close)

\* tokens that begin with "<"
StartsWithLt(c) ==
  c \in {"<", "<h2>", "<h3>", "<h4>", "</h2>", "</h3>", "</h4>",
         "<pre><code>", "<pre><code class='language-", "</code></pre>",
         "<a href='", "</a>", "<br>", "<p>", "</p>", "<hr>",
         "<a id='", "<article class='post' id='", "</article>",
         "<nav", "</nav>", "</main>", "<main>",
         "<!-- BLOGS-START -->", "<!-- BLOGS-END -->"}

\* [^\s<]
IsUrlChar(c) == ~IsSpace(c) /\ ~StartsWithLt(c)

IsScheme(c) == c \in {"http://", "https://"}

\* (https?://[^\s<]+) matches at position i
UrlAt(s, i) == IsScheme(s[i]) /\ i + 1 <= Len(s) /\ IsUrlChar(s[i + 1])

\* last position of the match at i
UrlEnd(s, i) == Max({r \in i + 1..Len(s) : \A k \in i + 1..r : IsUrlChar(s[k])})

\* line 30
RECURSIVE Autolink(_)
Autolink(s) ==
  LET M == {i \in 1..Len(s) : UrlAt(s, i)}
  IN IF M = {} THEN s
     ELSE LET i == Min(M)
              r == UrlEnd(s, i)
              u == Slice(s, i, r)
          IN Slice(s, 1, i - 1)
             \o <<"<a href='">> \o u \o <<"'>">> \o u \o <<"</a>">>
             \o Autolink(Slice(s, r + 1, Len(s)))

\* the positions where a match of \n\s*\n starting at i may end
BlankEnds(s, i) ==
  {j \in i + 1..Len(s) : s[j] = "\n" /\ \A k \in i..j : IsSpace(s[k])}

\* line 31: re.split(r"\n\s*\n", s)
RECURSIVE SplitBlank(_)
SplitBlank(s) ==
  LET M == {i \in 1..Len(s) : s[i] = "\n" /\ BlankEnds(s, i) /= {}}
  IN IF M = {} THEN <<s>>
     ELSE LET i == Min(M)
              j == Max(BlankEnds(s, i))
          IN <<Slice(s, 1, i - 1)>> \o SplitBlank(Slice(s, j + 1, Len(s)))

\* line 37: re.match(r"^<(h\d|pre|ul|ol|blockquote|p|div)", p, flags=re.I).
\* The pattern has no word boundary: "<" followed by a word that begins with
\* one of the names matches too ("<python").
IsBlockStart(p) ==
  \/ p[1] \in {"<h2>", "<h3>", "<h4>", "<pre><code>",
               "<pre><code class='language-", "<p>"}
  \/ (p[1] = "<" /\ Len(p) >= 2 /\ p[2] \in {"python"})

\* lines 34-41, for one part
Block(part) ==
  LET p == Strip(part)
  IN IF p = <<>> THEN <<>>
     ELSE IF IsBlockStart(p) THEN <<p>>
     ELSE <<(<<"<p>">> \o Replace(p, <<"\n">>, <<"<br>">>) \o <<"</p>">>)>>

\* lines 32-41: the list out
RECURSIVE Blocks(_)
Blocks(parts) ==
  IF parts = <<>> THEN <<>> ELSE Block(Head(parts)) \o Blocks(Tail(parts))

compile_markdown(m) ==
  LET s0 == NormalizeNewlines(m)
      s1 == CodeSub(s0)
      s2 == HeadingSub(s1, 3, "<h4>", "</h4>")
      s3 == HeadingSub(s2, 2, "<h3>", "</h3>")
      s4 == HeadingSub(s3, 1, "<h2>", "</h2>")
      s5 == Autolink(s4)
  IN Join(<<"\n", "\n">>, Blocks(SplitBlank(s5)))

MdSegs ==
  {<<"#">>, <<" ">>, <<"\n">>, <<"\r">>, <<"Hello">>, <<"World">>,
   <<"#", " ", "Hello">>, <<"http://", "x">>, <<"<">>, <<"&">>,
   <<"BACKTICK", "BACKTICK", "BACKTICK", "\n">>, <<"BACKTICK", "BACKTICK", "BACKTICK", "python", "\n">>,
   <<"\n", "BACKTICK", "BACKTICK", "BACKTICK">>}
MdTexts == SegTexts(MdSegs, MaxMdSegs)

InitMd ==
  /\ pc = "call"
  /\ md \in MdTexts
  /\ fallback = <<>> /\ compiled = <<>> /\ title = <<>>
  /\ SlugIdle /\ MergeIdle /\ MainIdle

\* one call compile_markdown(md)
CompileMarkdown ==
  /\ pc = "call"
  /\ compiled' = compile_markdown(md)
  /\ pc' = "done"
  /\ UNCHANGED <<md, fallback, title, slugVars, mergeVars, mainVars>>

NextMd == CompileMarkdown
SpecMd == InitMd /\ [][NextMd]_vars

\* A text that is one fenced code block and nothing else.
IsFencedDoc(s) ==
  /\ FenceAt(s, 1)
  /\ Min(FenceCloses(s, 1)) + 3 = Len(s)

\* The language tag and the enclosed text of such a text.
FencedLang(s) == Slice(s, 4, 3 + LangLen(s, 1))
FencedCode(s) == Slice(s, 5 + LangLen(s, 1), Min(FenceCloses(s, 1)) - 1)

\* C5: text enclosed in a fenced code block is not reinterpreted by the
\* later steps: a text that is one well-formed fenced block compiles to the
\* single <pre><code>...</code></pre> fragment holding exactly the
\* HTML-escaped enclosed text (no heading, no block split, no paragraph, no
\* hyperlink made from it).
C5_FencedTextNotReinterpreted ==
  (pc = "done" /\ IsFencedDoc(NormalizeNewlines(md))) =>
    compiled = repl_code(FencedLang(NormalizeNewlines(md)),
                         FencedCode(NormalizeNewlines(md)))

\* position k of the text is inside an element opened by a token of Opens
\* and closed by a token of Closes
InsideElement(s, k, Opens, Closes) ==
  \E i \in 1..k - 1 :
    /\ s[i] \in Opens
    /\ \A m \in i + 1..k - 1 : s[m] \notin Closes

\* C6: "# Hello\nWorld" compiles to <h2>Hello</h2>, a blank line, and
\* <p>World</p>; in general no text is left bare: every word of the output
\* is inside a paragraph, heading, code or link element.
C6_TextLinesBecomeParagraphs ==
  pc = "done" =>
    /\ md = <<"#", " ", "Hello", "\n", "World">> =>
         compiled = <<"<h2>", "Hello", "</h2>", "\n", "\n", "<p>", "World", "</p>">>
    /\ \A k \in 1..Len(compiled) :
         compiled[k] \in {"Hello", "World"} =>
           \/ InsideElement(compiled, k, {"<p>"}, {"</p>"})
           \/ InsideElement(compiled, k, {"<h2>", "<h3>", "<h4>"},
                            {"</h2>", "</h3>", "</h4>"})
           \/ InsideElement(compiled, k,
                            {"<pre><code>", "<pre><code class='language-"},
                            {"</code></pre>"})
           \/ InsideElement(compiled, k, {"<a href='"}, {"</a>"})

(***************************************************************************)
(* main: the tokens of templates and of generated markup.                  *)
(***************************************************************************)
M_BLOGS    == <<"#", "#", "#", "BLOGS", "#", "#", "#">>          \* ###BLOGS###
M_CONTENTS == <<"#", "#", "#", "BLOG-CONTENTS", "#", "#", "#">>  \* ###BLOG-CONTENTS###
BLOGS_START == "<!-- BLOGS-START -->"
BLOGS_END   == "<!-- BLOGS-END -->"
\* line 84: the placeholder paragraph of an empty feed, one token
NO_POSTS == "<p class=translatable ...>No posts yet.</p>"
\* a backslash followed by a letter that is no escape of a re replacement
\* template (such as \d), one token
BAD_ESCAPE == "\\d"

\* tokens that contain ">"
ContainsGt(c) ==
  c \in {">", "'>", "<h2>", "<h3>", "<h4>", "</h2>", "</h3>", "</h4>",
         "<pre><code>", "</code></pre>", "</a>", "<br>", "<p>", "</p>",
         "<hr>", "</article>", "</nav>", "</main>", "<main>",
         BLOGS_START, BLOGS_END, NO_POSTS}

\* line 79
Fragment(anchor, body) ==
  <<"<a id='">> \o anchor \o <<"'>", "</a>", "\n", "<article class='post' id='">>
  \o anchor \o <<"'>", "\n">> \o body \o <<"\n", "</article>">>

\* line 81
ContentsEntry(anchor, ttl) ==
  <<"<a href='#">> \o anchor \o <<"'>", "-", " ">> \o HtmlEscape(ttl) \o <<"</a>">>

\* line 84
PostsBlock(frags) ==
  IF frags /= <<>> THEN Join(<<"\n", "<hr>", "\n">>, frags) ELSE <<NO_POSTS>>

\* line 85
ContentsBlock(entries) == Join(<<"<br>">>, entries)

(***************************************************************************)
(* main, lines 93-103: insertion of the feed.                              *)
(***************************************************************************)
\* line 99: the first match of <!-- BLOGS-START -->[\s\S]*?<!-- BLOGS-END -->
\* as <<first, last>> positions, <<0, 0>> when the pattern does not match
BlogsRegion(t) ==
  LET i == FindFrom(t, <<BLOGS_START>>, 1)
      j == IF i = 0 THEN 0 ELSE FindFrom(t, <<BLOGS_END>>, i + 1)
  IN IF i = 0 \/ j = 0 THEN <<0, 0>> ELSE <<i, j>>

\* line 99: re.sub(pattern, "<!-- BLOGS-START -->\n...\n<!-- BLOGS-END -->",
\* tpl, count=1)
SubBlogsRegion(t, feed) ==
  LET r == BlogsRegion(t)
  IN IF r = <<0, 0>> THEN t
     ELSE Slice(t, 1, r[1] - 1)
          \o <<BLOGS_START, "\n">> \o feed \o <<"\n", BLOGS_END>>
          \o Slice(t, r[2] + 1, Len(t))

\* which of the four branches of lines 94-103 runs
FeedRule(t) ==
  IF Contains(t, M_BLOGS) THEN 1
  ELSE IF Contains(t, <<BLOGS_START>>) /\ Contains(t, <<BLOGS_END>>) THEN 2
  ELSE IF Contains(t, <<"</main>">>) THEN 3
  ELSE 4

\* line 99 raises re.error when the replacement template cannot be parsed
\* (re.sub parses it whether or not the pattern matches)
FeedRaises(t, feed) == FeedRule(t) = 2 /\ Contains(feed, <<BAD_ESCAPE>>)

\* str.replace(pat, rep, 1): the first occurrence only
ReplaceFirst(s, pat, rep) ==
  LET i == FindFrom(s, pat, 1)
  IN IF i = 0 THEN s
     ELSE Slice(s, 1, i - 1) \o rep \o Slice(s, i + Len(pat), Len(s))

\* InsertFeed with the marker replaced once only
InsertFeedFirstOnly(t, feed) ==
  CASE FeedRule(t) = 1 -> ReplaceFirst(t, M_BLOGS, feed)
    [] FeedRule(t) = 2 -> SubBlogsRegion(t, feed)
    [] FeedRule(t) = 3 -> Replace(t, <<"</main>">>, feed \o <<"\n", "</main>">>)
    [] OTHER           -> t \o <<"\n", "\n">> \o feed

\* lines 94-103
InsertFeed(t, feed) ==
  CASE FeedRule(t) = 1 -> Replace(t, M_BLOGS, feed)
    [] FeedRule(t) = 2 -> SubBlogsRegion(t, feed)
    [] FeedRule(t) = 3 -> Replace(t, <<"</main>">>, feed \o <<"\n", "</main>">>)
    [] OTHER           -> t \o <<"\n", "\n">> \o feed

(***************************************************************************)
(* main, lines 105-110: insertion of the contents list.                    *)
(***************************************************************************)
\* (<nav\b[^>]*>) matches at position i: "<nav", not followed by a word
\* character, then anything up to the first ">".  In the texts of the model
\* the first token after "<nav" that contains ">" ends with its only ">".
NavOpenEnds(h, i) == {g \in i + 1..Len(h) : ContainsGt(h[g])}
NavOpenAt(h, i) ==
  /\ h[i] = "<nav"
  /\ i + 1 <= Len(h)
  /\ ~IsWordChar(h[i + 1])
  /\ NavOpenEnds(h, i) /= {}

\* the </nav> that ends ([\s\S]*?) for the opening tag at i
NavCloses(h, i) == {k \in Min(NavOpenEnds(h, i)) + 1..Len(h) : h[k] = "</nav>"}

\* positions where (<nav\b[^>]*>)([\s\S]*?)(</nav>) matches
NavMatches(h) == {i \in 1..Len(h) : NavOpenAt(h, i) /\ NavCloses(h, i) /= {}}

\* line 108: re.sub(..., lambda m: m.group(1) + "\n" + contents_block + "\n"
\* + m.group(3), out_html, count=1)
SubNav(h, cb) ==
  IF NavMatches(h) = {} THEN h
  ELSE LET i == Min(NavMatches(h))
           g == Min(NavOpenEnds(h, i))
           k == Min(NavCloses(h, i))
       IN Slice(h, 1, g) \o <<"\n">> \o cb \o <<"\n", "</nav>">>
          \o Slice(h, k + 1, Len(h))

\* which of the three branches of lines 105-110 runs
ContentsRule(h) ==
  IF Contains(h, M_CONTENTS) THEN 1
  ELSE IF Contains(h, <<"<nav">>) /\ Contains(h, <<"</nav>">>) THEN 2
  ELSE 3

\* lines 105-110
InsertContents(h, cb) ==
  CASE ContentsRule(h) = 1 -> Replace(h, M_CONTENTS, cb)
    [] ContentsRule(h) = 2 -> SubNav(h, cb)
    [] OTHER               -> cb \o <<"\n", "\n">> \o h

(***************************************************************************)
(* main (lines 53-117) as a sequence of steps.  md_files is the list after *)
(* lines 60-69: the eligible files of blogs/, newest first.  A file that   *)
(* cannot be read makes read_text raise; an uncaught exception ends the    *)
(* process with status 1, like sys.exit(1).                                *)
(***************************************************************************)
Exit(status) == pc' = "exit" /\ exit_status' = status

\* lines 55-57
CheckDir ==
  /\ pc = "start"
  /\ IF dir_exists
     THEN pc' = "collect" /\ UNCHANGED exit_status
     ELSE Exit("1")
  /\ UNCHANGED <<slugVars, mdVars, mergeVars, dir_exists, tpl_exists,
                 md_files, posts_fragments, contents, OUT, OUT0>>

\* lines 74-82: one iteration of the loop over md_files
ReadPost ==
  /\ pc = "collect"
  /\ Len(posts_fragments) < Len(md_files)
  /\ LET p      == md_files[Len(posts_fragments) + 1]
         ttl    == extract_title(p.raw, p.stem)
         body   == compile_markdown(p.raw)
         anchor == slugify(p.stem)
     IN IF p.readable
        THEN /\ posts_fragments' = Append(posts_fragments, Fragment(anchor, body))
             /\ contents' = Append(contents, ContentsEntry(anchor, ttl))
             /\ UNCHANGED <<pc, exit_status>>
        ELSE /\ Exit("1")
             /\ UNCHANGED <<posts_fragments, contents>>
  /\ UNCHANGED <<slugVars, mdVars, mergeVars, dir_exists, tpl_exists,
                 md_files, OUT, OUT0>>

\* CheckTemplate with blogs.html opened for writing (truncated) before the
\* template is looked for
CheckTemplateOpensOutputFirst ==
  /\ pc = "collect"
  /\ Len(posts_fragments) = Len(md_files)
  /\ posts_block' = PostsBlock(posts_fragments)
  /\ contents_block' = ContentsBlock(contents)
  /\ OUT' = [exists |-> TRUE, text |-> <<>>]
  /\ IF tpl_exists
     THEN pc' = "merge" /\ UNCHANGED exit_status
     ELSE Exit("1")
  /\ UNCHANGED <<slugVars, mdVars, tpl, out_html, dir_exists, tpl_exists,
                 md_files, posts_fragments, contents, OUT0>>

\* lines 84-91, after the loop
CheckTemplate ==
  /\ pc = "collect"
  /\ Len(posts_fragments) = Len(md_files)
  /\ posts_block' = PostsBlock(posts_fragments)
  /\ contents_block' = ContentsBlock(contents)
  /\ IF tpl_exists
     THEN pc' = "merge" /\ UNCHANGED exit_status
     ELSE Exit("1")
  /\ UNCHANGED <<slugVars, mdVars, tpl, out_html, dir_exists, tpl_exists,
                 md_files, posts_fragments, contents, OUT, OUT0>>

\* lines 93-103
MergeFeed ==
  /\ pc = "merge"
  /\ IF FeedRaises(tpl, posts_block)
     THEN Exit("1") /\ UNCHANGED out_html
     ELSE /\ out_html' = InsertFeed(tpl, posts_block)
          /\ pc' = "contents"
          /\ UNCHANGED exit_status
  /\ UNCHANGED <<slugVars, mdVars, tpl, posts_block, contents_block,
                 dir_exists, tpl_exists, md_files, posts_fragments, contents,
                 OUT, OUT0>>

\* lines 105-110
MergeContents ==
  /\ pc = "contents"
  /\ out_html' = InsertContents(out_html, contents_block)
  /\ pc' = "write"
  /\ UNCHANGED <<slugVars, mdVars, tpl, posts_block, contents_block,
                 mainVars>>

\* line 113
Write ==
  /\ pc = "write"
  /\ OUT' = [exists |-> TRUE, text |-> out_html]
  /\ pc' = "report"
  /\ UNCHANGED <<slugVars, mdVars, mergeVars, dir_exists, tpl_exists,
                 md_files, posts_fragments, contents, OUT0, exit_status>>

\* lines 114-117, and the end of the script: prints only (the quotes of
\* line 117 are read as plain quotes)
Report ==
  /\ pc = "report"
  /\ Exit("0")
  /\ UNCHANGED <<slugVars, mdVars, mergeVars, dir_exists, tpl_exists,
                 md_files, posts_fragments, contents, OUT, OUT0>>

Stems == {<<"a", " ", "b">>, <<"a", "-", "b">>, <<"x">>}
Raws  == {<<"#", " ", "Hello", "\n", "World">>,
          <<"Hello", " ">> \o M_CONTENTS,
          <<"x", BAD_ESCAPE>>}
Files == [stem : Stems, raw : Raws, readable : BOOLEAN]
\* the names of the files of a directory are distinct
FileLists ==
  {fs \in SeqsUpTo(Files, MaxFiles) :
     \A i, k \in 1..Len(fs) : i /= k => fs[i].stem /= fs[k].stem}

\* the contents of blogs.html before a run: absent, or an earlier output
OldOutputs == {[exists |-> FALSE, text |-> <<>>],
               [exists |-> TRUE, text |-> <<"old">>]}

MainTemplates ==
  {M_BLOGS \o <<"\n">> \o M_CONTENTS,
   <<BLOGS_START, "old", BLOGS_END>>,
   <<"<main>", "</main>">>,
   <<"x">>}

Init ==
  /\ pc = "start"
  /\ dir_exists \in BOOLEAN
  /\ tpl_exists \in BOOLEAN
  /\ md_files \in (IF dir_exists THEN FileLists ELSE {<<>>})
  /\ tpl \in (IF tpl_exists THEN MainTemplates ELSE {<<>>})
  /\ OUT0 \in OldOutputs
  /\ OUT = OUT0
  /\ posts_fragments = <<>> /\ contents = <<>>
  /\ posts_block = <<>> /\ contents_block = <<>> /\ out_html = <<>>
  /\ exit_status = "running"
  /\ SlugIdle /\ MdIdle

Next ==
  \/ CheckDir
  \/ ReadPost
  \/ CheckTemplate
  \/ MergeFeed
  \/ MergeContents
  \/ Write
  \/ Report

Spec == Init /\ [][Next]_vars

(***************************************************************************)
(* The merge alone (lines 93-110), over many templates: main at line 93,   *)
(* after the posts of md_files were collected and the template was read.   *)
(***************************************************************************)
NAV == <<"<nav", ">", "Home", "</nav>">>
TplSegs ==
  {M_BLOGS, M_CONTENTS, <<BLOGS_START>>, <<BLOGS_END>>, <<"</main>">>,
   NAV, <<"<nav", "bar", ">">>, <<"</nav>">>, <<"x">>}
Templates == SegTexts(TplSegs, MaxTplSegs)

File(st, rw) == [stem |-> st, raw |-> rw, readable |-> TRUE]
MergeFileLists ==
  {<<>>,
   <<File(<<"x">>, <<"#", " ", "Hello", "\n", "World">>)>>,
   <<File(<<"x">>, <<"Hello">>), File(<<"a", " ", "b">>, <<"World">>)>>,
   <<File(<<"x">>, <<"Hello", " ">> \o M_CONTENTS)>>,
   <<File(<<"x">>, NAV)>>,
   <<File(<<"x">>, <<"x", BAD_ESCAPE>>)>>}

RECURSIVE FragmentsOf(_)
FragmentsOf(fs) ==
  IF fs = <<>> THEN <<>>
  ELSE <<Fragment(slugify(Head(fs).stem), compile_markdown(Head(fs).raw))>>
       \o FragmentsOf(Tail(fs))

RECURSIVE EntriesOf(_)
EntriesOf(fs) ==
  IF fs = <<>> THEN <<>>
  ELSE <<ContentsEntry(slugify(Head(fs).stem),
                       extract_title(Head(fs).raw, Head(fs).stem))>>
       \o EntriesOf(Tail(fs))

InitMerge ==
  /\ pc = "merge"
  /\ dir_exists = TRUE /\ tpl_exists = TRUE
  /\ md_files \in MergeFileLists
  /\ tpl \in Templates
  /\ posts_fragments = FragmentsOf(md_files)
  /\ contents = EntriesOf(md_files)
  /\ posts_block = PostsBlock(posts_fragments)
  /\ contents_block = ContentsBlock(contents)
  /\ out_html = <<>>
  /\ OUT0 = [exists |-> FALSE, text |-> <<>>]
  /\ OUT = OUT0
  /\ exit_status = "running"
  /\ SlugIdle /\ MdIdle

NextMerge == MergeFeed \/ MergeContents
SpecMerge == InitMerge /\ [][NextMerge]_vars

(***************************************************************************)
(* Properties of the merge.                                                *)
(***************************************************************************)
HasBothMarkers(t) == Contains(t, M_BLOGS) /\ Contains(t, M_CONTENTS)

\* A text read once from left to right, with every ###BLOGS### replaced by
\* feed, every ###BLOG-CONTENTS### by cb, and every other token kept.
RECURSIVE Expand(_, _, _)
Expand(t, feed, cb) ==
  IF t = <<>> THEN <<>>
  ELSE IF MatchAt(t, M_BLOGS, 1)
       THEN feed \o Expand(Slice(t, Len(M_BLOGS) + 1, Len(t)), feed, cb)
  ELSE IF MatchAt(t, M_CONTENTS, 1)
       THEN cb \o Expand(Slice(t, Len(M_CONTENTS) + 1, Len(t)), feed, cb)
  ELSE <<Head(t)>> \o Expand(Tail(t), feed, cb)

C2_FeedAlwaysInserted ==
  pc = "contents" => Contains(out_html, posts_block)

\* C3: when the document after feed insertion has no ###BLOG-CONTENTS### but
\* has a nav element, the contents string is inserted after the opening tag
\* of the first nav element (with or without the line breaks around it), and
\* what was between that tag and its </nav> is still there after it.
C3_NavContentKept ==
  [][(/\ pc = "contents" /\ pc' = "write"
      /\ ~Contains(out_html, M_CONTENTS)
      /\ NavMatches(out_html) /= {})
     => LET g == Min(NavOpenEnds(out_html, Min(NavMatches(out_html))))
            before == Slice(out_html, 1, g)
            after  == Slice(out_html, g + 1, Len(out_html))
        IN out_html' \in
             {before \o contents_block \o after,
              before \o <<"\n">> \o contents_block \o <<"\n">> \o after}]_vars

\* C10: the feed string inserted by lines 93-103 is still in the document,
\* verbatim, after lines 105-110: the contents-insertion rules match text of
\* the template only (here: of a template that has no nav element), never
\* text of a post.
C10_FeedSurvivesContentsInsertion ==
  [][(/\ pc = "contents" /\ pc' = "write"
      /\ ~Contains(tpl, <<"<nav">>)
      /\ Contains(out_html, posts_block))
     => Contains(out_html', posts_block)]_vars

(***************************************************************************)
(* Properties of a run of main.                                            *)
(***************************************************************************)
\* C4: blogs.html is written only as the last effect of a run that found the
\* directory, read and compiled every post and found the template; a run
\* that aborts ends with status 1 and leaves blogs.html exactly as it was.
C4_WriteOnlyAtEndOfSuccessfulRun ==
  /\ OUT /= OUT0 =>
       /\ pc \in {"report", "exit"}
       /\ exit_status /= "1"
       /\ dir_exists /\ tpl_exists
       /\ Len(posts_fragments) = Len(md_files)
       /\ \A k \in 1..Len(md_files) : md_files[k].readable
       /\ OUT = [exists |-> TRUE, text |-> out_html]
  /\ pc = "exit" => exit_status \in {"0", "1"}
  /\ (pc = "exit" /\ exit_status = "1") => OUT = OUT0
  /\ (pc = "exit" /\ exit_status = "0") => OUT = [exists |-> TRUE, text |-> out_html]
  /\ (/\ pc = "exit"
      /\ \/ ~dir_exists
         \/ ~tpl_exists
         \/ \E k \in 1..Len(md_files) : ~md_files[k].readable)
     => exit_status = "1"

\* C4 reached: a run that aborted after it had compiled a post, with an
\* earlier blogs.html on disk.
C4_Witness ==
  /\ pc = "exit" /\ exit_status = "1"
  /\ posts_fragments /= <<>>
  /\ OUT0.exists /\ OUT = OUT0

\* the anchor of a fragment (<a id='...'>) and of a contents entry
\* (<a href='#...'>)
AnchorOf(frag) == Slice(frag, 2, FindFrom(frag, <<"'>">>, 1) - 1)

\* C9: every anchor of a contents-list entry matches exactly one anchor of
\* the feed, and the contents list and the feed have the same anchors in the
\* same order, for any set of eligible files.
C9_AnchorsUnique ==
  pc = "merge" =>
    /\ Len(contents) = Len(posts_fragments)
    /\ \A k \in 1..Len(contents) :
         /\ AnchorOf(contents[k]) = AnchorOf(posts_fragments[k])
         /\ Cardinality({i \in 1..Len(posts_fragments) :
                           AnchorOf(posts_fragments[i]) = AnchorOf(contents[k])}) = 1

====
